---- MODULE Spec2Model ----
(***************************************************************************)
(* A model of the SNMP relay bot of src/main.py: the identifier validator, *)
(* the two query operations of SNMPManager (get_snmp_value and             *)
(* walk_snmp_tree), the endpoint configuration held by TelegramBot, and    *)
(* the three command handlers that drive them (/snmp, /snmpwalk,           *)
(* /snmpconfig).                                                           *)
(*                                                                         *)
(* Strings whose content the code inspects (identifiers, port arguments)   *)
(* are sequences of one-character strings.  An SNMPManager object is never *)
(* assigned to after __init__, so an object is identified with the record  *)
(* of its three fields; bot.snmp_manager is the record of the object the   *)
(* bot currently refers to, and a running call keeps the record it was     *)
(* invoked on as `self`.                                                   *)
(*                                                                         *)
(* The handlers are coroutines on one event loop: the code between two     *)
(* awaits runs without interleaving, and is one action here.               *)
(***************************************************************************)
EXTENDS Integers, Sequences, FiniteSets, TLC

\* ------------------------------------------------------------------ bounds
\* Longest identifier string enumerated for validate_oid.
MaxOidLen == 4
\* Longest port argument enumerated for int().
MaxPortLen == 2
\* Most response tuples the transport yields to one call.
MaxBatches == 2
\* Most variable bindings in one response tuple.
MaxBatchLen == 2
\* Largest max_results a direct caller passes (the smallest is -1).
MaxResultsArg == 2
\* Largest errorIndex the agent reports.
MaxErrorIndex == 2

\* ------------------------------------------------------- program constants
\* walk_snmp_tree(self, oid, max_results = 10)
DefaultMaxResults == 10
\* SNMPManager.__init__ / update_snmp_config / snmp_config: port = 161
DefaultPort == 161

DefaultCommunity == "public"
DefaultHost == "192.168.137.130"

\* ------------------------------------------------------------------ strings
Digits == {"0", "1", "3", "6", "7"}

DigitValue(ch) ==
    CASE ch = "0" -> 0 [] ch = "1" -> 1 [] ch = "3" -> 3
      [] ch = "6" -> 6 [] ch = "7" -> 7

\* The characters identifiers are drawn from: digits, the dot, a letter and
\* a line terminator.
OidAlphabet == {"1", "3", ".", "a", "\n"}

SeqsUpTo(S, n) == UNION {[1..k -> S] : k \in 0..n}

\* ------------------------------------------------------------- validate_oid
\* One step of the matcher for r'^\.?(\d+\.)*\d+$'.  The states are
\*   "start"  nothing read yet (a dot or a digit may follow),
\*   "sep"    just after a dot (a digit must follow),
\*   "digits" inside a run of digits (a digit or a dot may follow),
\*   "fail"   no match.
PatternStep(st, ch) ==
    CASE st = "start"  -> IF ch \in Digits THEN "digits"
                          ELSE IF ch = "." THEN "sep" ELSE "fail"
      [] st = "sep"    -> IF ch \in Digits THEN "digits" ELSE "fail"
      [] st = "digits" -> IF ch \in Digits THEN "digits"
                          ELSE IF ch = "." THEN "sep" ELSE "fail"
      [] OTHER         -> "fail"

\* re.match(pattern, oid) from position i in state st.  '$' (without
\* re.MULTILINE) matches at the end of the string and also just before a
\* line terminator that is the last character of the string.
RECURSIVE re_match(_, _, _)
re_match(oid, i, st) ==
    IF st = "fail" THEN FALSE
    ELSE IF i > Len(oid) THEN st = "digits"
    ELSE IF st = "digits" /\ i = Len(oid) /\ oid[i] = "\n" THEN TRUE
    ELSE re_match(oid, i + 1, PatternStep(st, oid[i]))

validate_oid(oid) == re_match(oid, 1, "start")

\* oid.startswith('.') and the normalisation 'if not ...: oid = "." + oid'.
startswith_dot(oid) == Len(oid) > 0 /\ oid[1] = "."
normalize_oid(oid) == IF startswith_dot(oid) THEN oid ELSE <<".">> \o oid

\* ---------------------------------------------------------------- int(...)
\* The characters port arguments are drawn from.
PortAlphabet == {"0", "1", "6", "-", "a"}

RECURSIVE digits_value(_, _)
digits_value(s, acc) ==
    IF s = <<>> THEN acc ELSE digits_value(Tail(s), 10 * acc + DigitValue(Head(s)))

\* int(token) for a token without white space: an optional sign and one or
\* more digits give the number, anything else raises ValueError.
int(token) ==
    LET signed == Len(token) > 0 /\ token[1] \in {"-", "+"}
        body   == IF signed THEN Tail(token) ELSE token
    IN IF body # <<>> /\ \A i \in 1..Len(body) : body[i] \in Digits
       THEN [raises |-> "none",
             value  |-> IF signed /\ token[1] = "-"
                        THEN 0 - digits_value(body, 0) ELSE digits_value(body, 0)]
       ELSE [raises |-> "ValueError", value |-> 0]

\* ------------------------------------------------------------ SNMPManager
\* SNMPManager.__init__: the object is its three fields.
SNMPManager(target_host, community, port) ==
    [target_host |-> target_host, community |-> community, port |-> port]

\* str(x) of an identifier or a value the agent returned.
str(x) == ToString(x)

\* The k-th binding of the agent's traversal: (ObjectIdentity, value).
VarBind(k) ==
    <<k, [type |-> IF k % 2 = 1 THEN "OctetString" ELSE "Integer", v |-> 100 + k]>>

\* n consecutive bindings after the first `served` ones.
VarBinds(served, n) == [i \in 1..n |-> VarBind(served + i)]

\* What the exception classes of the two operations distinguish.
Exceptions == {"TimeoutError", "AttributeError", "OSError"}

NoIndication == "None"
Indications == {NoIndication, "No SNMP response received before timeout"}

\* errorStatus 0 is falsy; prettyPrint names the others.
prettyPrint(errorStatus) == IF errorStatus = 0 THEN "noError" ELSE "noSuchName"

\* ---------------------------------------------------------------- results
Failure(prefix, detail) == [success |-> FALSE, error |-> <<prefix, detail>>]

E_InvalidGet == "Invalid OID format. OID should contain only numbers and dots"
E_InvalidWalk == "Invalid OID format"
E_IndicationGet == "SNMP Error: {errorIndication}. Check if the target device is reachable"
E_IndicationWalk == "SNMP surging: {errorIndication}. Check if the target device is reachable"
E_StatusGet == "SNMP Error: {errorStatus} at {oid}"
E_StatusWalk == "SNMP Error: {errorStatus}"
E_Attribute == "SNMP AttributeError: {ae}. Ensure the correct pysnmp version is installed."
E_NoData == "No data received from SNMP query."
E_TimeoutGet == "SNMP request timed out."
E_TimeoutWalk == "SNMP walk timed out."
E_Connection == "Connection error: {e}. Ensure the SNMP target is configured correctly."

\* How a piece of code ends: it returns a value or raises an exception.
Return(v) == [ends |-> TRUE, raised |-> "none", value |-> v]
Raise(exc) == [ends |-> TRUE, raised |-> exc, value |-> "none"]
\* The body of a loop ends without leaving the loop.
Continue == [ends |-> FALSE, raised |-> "none", value |-> "none"]

\* A variant without the final 'except Exception': only the timeout is
\* turned into a result.
outer_except_timeout_only(op, exc) ==
    IF exc = "TimeoutError"
    THEN Return(Failure(IF op = "get" THEN E_TimeoutGet ELSE E_TimeoutWalk, ""))
    ELSE Raise(exc)

\* A variant without 'except TimeoutError': every exception is reported
\* as a connection error.
outer_except_generic_only(op, exc) == Return(Failure(E_Connection, exc))

\* The outer handlers of both operations: 'except TimeoutError' and then
\* 'except Exception'.
outer_except(op, exc) ==
    IF exc = "TimeoutError"
    THEN Return(Failure(IF op = "get" THEN E_TimeoutGet ELSE E_TimeoutWalk, ""))
    ELSE Return(Failure(E_Connection, exc))

\* The inner 'except AttributeError' around the await and the iteration;
\* what it does not catch reaches the outer handlers.
inner_except(op, exc) ==
    IF exc = "AttributeError"
    THEN Return(Failure(E_Attribute, exc))
    ELSE outer_except(op, exc)

\* A variant in which what the loop body raises is not inside any try and
\* leaves the operation.
through_handlers_uncaught(op, outcome) == outcome

\* An outcome of code inside the inner try, as the caller of the operation
\* sees it.
through_handlers(op, outcome) ==
    IF outcome.raised = "none" THEN outcome ELSE inner_except(op, outcome.raised)

\* f"{errorIndex and varBinds[int(errorIndex) - 1][0] or '?'}": 0 is falsy
\* and gives '?'; otherwise the list is indexed, which raises IndexError
\* past its end.
error_at(errorIndex, varBinds) ==
    IF errorIndex = 0 THEN Return("?")
    ELSE IF errorIndex - 1 < Len(varBinds) THEN Return(str(varBinds[errorIndex][1]))
    ELSE Raise("IndexError")

\* A variant that reports the last binding of the response instead of the
\* first.
get_item_last_binding(item) ==
    IF item.errorIndication # NoIndication
    THEN Return(Failure(E_IndicationGet, item.errorIndication))
    ELSE IF item.errorStatus # 0
    THEN LET at == error_at(item.errorIndex, item.varBinds)
         IN IF at.raised # "none" THEN Raise(at.raised)
            ELSE Return(Failure(E_StatusGet, <<prettyPrint(item.errorStatus), at.value>>))
    ELSE IF Len(item.varBinds) > 0
    THEN LET varBind == item.varBinds[Len(item.varBinds)]
         IN Return([success |-> TRUE, oid |-> str(varBind[1]),
                    value |-> str(varBind[2].v), type |-> varBind[2].type])
    ELSE Continue

\* The body of get_snmp_value's 'async for' for one response tuple: an
\* outcome that ends the call, or Continue for the next tuple.
get_item(item) ==
    IF item.errorIndication # NoIndication
    THEN Return(Failure(E_IndicationGet, item.errorIndication))
    ELSE IF item.errorStatus # 0
    THEN LET at == error_at(item.errorIndex, item.varBinds)
         IN IF at.raised # "none" THEN Raise(at.raised)
            ELSE Return(Failure(E_StatusGet, <<prettyPrint(item.errorStatus), at.value>>))
    ELSE IF Len(item.varBinds) > 0
    THEN LET varBind == item.varBinds[1]
         IN Return([success |-> TRUE, oid |-> str(varBind[1]),
                    value |-> str(varBind[2].v), type |-> varBind[2].type])
    ELSE Continue

\* The 'for varBind in varBinds' loop of walk_snmp_tree from position i:
\* append, count, and break when count >= max_results.
RECURSIVE walk_for(_, _, _, _, _)
walk_for(varBinds, i, results, count, max_results) ==
    IF i > Len(varBinds) THEN [results |-> results, count |-> count]
    ELSE LET entry == [oid |-> str(varBinds[i][1]), value |-> str(varBinds[i][2].v)]
         IN IF count + 1 >= max_results
            THEN [results |-> Append(results, entry), count |-> count + 1]
            ELSE walk_for(varBinds, i + 1, Append(results, entry), count + 1, max_results)

WalkSuccess(results, count) == [success |-> TRUE, results |-> results, count |-> count]

\* A variant that answers an error with the entries accumulated so far.
walk_item_partial(item, results, count, max_results) ==
    IF item.errorIndication # NoIndication \/ item.errorStatus # 0
    THEN [results |-> results, count |-> count,
          outcome |-> Return(WalkSuccess(results, count))]
    ELSE LET acc == walk_for(item.varBinds, 1, results, count, max_results)
         IN [results |-> acc.results, count |-> acc.count,
             outcome |-> IF acc.count >= max_results
                         THEN Return(WalkSuccess(acc.results, acc.count))
                         ELSE Continue]

\* The body of walk_snmp_tree's 'async for' for one response tuple: the new
\* accumulators, and the outcome that ends the call or Continue.
walk_item(item, results, count, max_results) ==
    IF item.errorIndication # NoIndication
    THEN [results |-> results, count |-> count,
          outcome |-> Return(Failure(E_IndicationWalk, item.errorIndication))]
    ELSE IF item.errorStatus # 0
    THEN [results |-> results, count |-> count,
          outcome |-> Return(Failure(E_StatusWalk, prettyPrint(item.errorStatus)))]
    ELSE LET acc == walk_for(item.varBinds, 1, results, count, max_results)
         IN [results |-> acc.results, count |-> acc.count,
             outcome |-> IF acc.count >= max_results
                         THEN Return(WalkSuccess(acc.results, acc.count))
                         ELSE Continue]

\* ------------------------------------------------------------------- state
VARIABLES
    snmp_manager,   \* bot.snmp_manager: the SNMPManager the bot refers to
    calls,          \* the handler invocations and engine calls, by slot
    config_queue,   \* the /snmpconfig commands received and not yet handled
    config_reply,   \* what the last /snmpconfig command replied
    oid_in,         \* the string validate_oid is applied to
    valid_out       \* its answers: <<>> before the call, <<answer>> after

vars == <<snmp_manager, calls, config_queue, config_reply, oid_in, valid_out>>

\* UdpTransportTarget.create(..., timeout=5.0, retries=3)
TransportTimeout == 5
TransportRetries == 3

Slots == {1, 2}

NoManager == SNMPManager("", "", 0)
NoTransport == [host |-> "", port |-> 0, timeout |-> 0, retries |-> 0]

\* A slot no command is using.  `sent`, `delivered` and `fault` record what
\* the call asked of the transport and what the transport did: the requests,
\* the response tuples, and the exception it raised, if any.
IdleCall ==
    [pc |-> "idle", via |-> "none", op |-> "none", arg |-> <<>>, oid |-> <<>>,
     max_results |-> 0, self |-> NoManager, engine |-> FALSE,
     transport |-> NoTransport, community |-> "", sent |-> <<>>,
     delivered |-> <<>>, fault |-> "none", results |-> <<>>, count |-> 0,
     result |-> "none", raised |-> "none", response |-> "none"]

\* ---------------------------------------------------------------- handlers
\* snmp_get, from the result to the reply text (lines 492-503): the target
\* shown is read from bot.snmp_manager when the reply is built.
snmp_get_response(result, manager) ==
    IF result.success
    THEN [text |-> "SNMP Query Successful", oid |-> result.oid, value |-> result.value,
          type |-> result.type, target |-> manager.target_host]
    ELSE [text |-> "SNMP Query Failed", error |-> result.error]

\* A variant that tests 'success and results' first and reports an empty
\* walk as a failed one.
snmp_walk_response_empty_fails(result, manager) ==
    IF result.success /\ result.results # <<>>
    THEN [text |-> "SNMP Walk Results", count |-> result.count,
          items |-> result.results, target |-> manager.target_host]
    ELSE [text |-> "SNMP Walk Failed",
          error |-> IF result.success THEN <<"", "">> ELSE result.error]

\* snmp_walk, from the result to the reply text (lines 538-549).
snmp_walk_response(result, manager) ==
    IF result.success
    THEN IF result.results # <<>>
         THEN [text |-> "SNMP Walk Results", count |-> result.count,
               items |-> result.results, target |-> manager.target_host]
         ELSE [text |-> "No results found for the specified OID."]
    ELSE [text |-> "SNMP Walk Failed", error |-> result.error]

\* The handlers' own 'except Exception'.
handler_except == [text |-> "An error occurred while processing your request."]

\* The call ends with `outcome`; a handler that awaited it builds its reply
\* in the same step, with the manager the bot refers to at that moment.
Finish(call, outcome, manager) ==
    [call EXCEPT
       !.pc = "returned",
       !.result = outcome.value,
       !.raised = outcome.raised,
       !.response =
           IF call.via = "direct" THEN "none"
           ELSE IF outcome.raised # "none" THEN handler_except
           ELSE IF call.via = "snmp_get" THEN snmp_get_response(outcome.value, manager)
           ELSE snmp_walk_response(outcome.value, manager)]

\* What creating the engine and the transport can do: succeed, or raise at
\* one of the two constructors.
BuildOutcomes ==
    {[at |-> "none", exc |-> "none"]}
      \cup [at : {"SnmpEngine", "UdpTransportTarget.create"}, exc : Exceptions]

\* A variant that creates the engine before it validates the identifier.
enter_engine_first(call, manager, build) ==
    IF ~validate_oid(call.arg)
    THEN Finish([call EXCEPT !.engine = TRUE],
                Return(Failure(IF call.op = "get" THEN E_InvalidGet
                               ELSE E_InvalidWalk, "")), manager)
    ELSE [call EXCEPT
            !.oid = normalize_oid(call.arg),
            !.pc = "awaiting",
            !.engine = TRUE,
            !.transport = [host |-> call.self.target_host, port |-> call.self.port,
                           timeout |-> TransportTimeout, retries |-> TransportRetries],
            !.community = call.self.community]

\* get_snmp_value / walk_snmp_tree from entry to the first await (lines
\* 60-83, 140-166): validation, normalisation, engine and transport.
enter(call, manager, build) ==
    IF ~validate_oid(call.arg)
    THEN Finish(call, Return(Failure(IF call.op = "get" THEN E_InvalidGet
                                     ELSE E_InvalidWalk, "")), manager)
    ELSE LET c1 == [call EXCEPT !.oid = normalize_oid(call.arg)]
         IN IF build.at = "SnmpEngine"
            THEN Finish([c1 EXCEPT !.fault = build.exc],
                        outer_except(call.op, build.exc), manager)
            ELSE IF build.at = "UdpTransportTarget.create"
            THEN Finish([c1 EXCEPT !.engine = TRUE, !.fault = build.exc],
                        outer_except(call.op, build.exc), manager)
            ELSE [c1 EXCEPT
                    !.pc = "awaiting",
                    !.engine = TRUE,
                    !.transport = [host |-> call.self.target_host,
                                   port |-> call.self.port,
                                   timeout |-> TransportTimeout,
                                   retries |-> TransportRetries],
                    !.community = call.self.community]

\* A variant that resolves the endpoint from bot.snmp_manager whenever a
\* request is sent.
request_endpoint_current(call, manager) ==
    [host |-> manager.target_host, port |-> manager.port,
     community |-> manager.community]

\* Where a request of the call goes: to the transport target and with the
\* community data that were created before the first await (lines 74-83).
request_endpoint(call, manager) ==
    [host |-> call.transport.host, port |-> call.transport.port,
     community |-> call.community]

\* The call sends a request (or waits for the answer to one).
send(call, manager) ==
    [call EXCEPT !.sent = Append(call.sent, request_endpoint(call, manager))]

\* 'result = await cmd_generator' (lines 87, 170): the awaitable gives the
\* iterable ("ok") or raises.
await_result(call, out, manager) ==
    IF out = "ok" THEN [send(call, manager) EXCEPT !.pc = "iterating"]
    ELSE Finish([send(call, manager) EXCEPT !.fault = out],
                inner_except(call.op, out), manager)

\* One turn of the 'async for' (lines 88-111, 171-199) and what follows the
\* loop (lines 119-123, 207-212): the transport yields a response tuple,
\* ends the iteration, or raises.
iterate(call, out, manager) ==
    LET c1 == send(call, manager)
    IN IF out.kind = "raise"
       THEN Finish([c1 EXCEPT !.fault = out.exc],
                   inner_except(call.op, out.exc), manager)
       ELSE IF out.kind = "end"
       THEN Finish(c1, IF call.op = "get" THEN Return(Failure(E_NoData, ""))
                       ELSE Return(WalkSuccess(call.results, call.count)), manager)
       ELSE LET c2 == [c1 EXCEPT !.delivered = Append(call.delivered, out.item)]
            IN IF call.op = "get"
               THEN LET o == get_item(out.item)
                    IN IF o.ends THEN Finish(c2, through_handlers("get", o), manager)
                       ELSE c2
               ELSE LET w == walk_item(out.item, call.results, call.count,
                                       call.max_results)
                        c3 == [c2 EXCEPT !.results = w.results, !.count = w.count]
                    IN IF w.outcome.ends
                       THEN Finish(c3, through_handlers("walk", w.outcome), manager)
                       ELSE c3

\* ------------------------------------------------------------- environment
\* The bindings the agent has returned to the call so far.
RECURSIVE Flatten(_)
Flatten(batches) ==
    IF batches = <<>> THEN <<>> ELSE Head(batches).varBinds \o Flatten(Tail(batches))

Served(call) == Len(Flatten(call.delivered))

\* The response tuples the transport can yield after `served` bindings: an
\* error indication, an error status with an index and bindings, or
\* bindings alone.
Items(served) ==
    {[errorIndication |-> ei, errorStatus |-> 0, errorIndex |-> 0, varBinds |-> <<>>] :
        ei \in Indications \ {NoIndication}}
    \cup
    {[errorIndication |-> NoIndication, errorStatus |-> es, errorIndex |-> ix,
      varBinds |-> VarBinds(served, n)] :
        es \in {0, 2}, ix \in 0..MaxErrorIndex, n \in 0..MaxBatchLen}

\* A status of 0 comes with index 0.
WellFormedItem(item) == item.errorStatus = 0 => item.errorIndex = 0

IterationOutcomes(call) ==
    {[kind |-> "end"]}
    \cup {[kind |-> "raise", exc |-> e] : e \in Exceptions}
    \cup {[kind |-> "item", item |-> it] :
            it \in {x \in Items(Served(call)) :
                      WellFormedItem(x) /\ Len(call.delivered) < MaxBatches}}

\* The identifiers commands and callers pass.
OidInputs == {<<"1", ".", "3">>, <<".", "1", ".", "3">>, <<"1", ".">>, <<"a">>}

\* The argument lists of /snmp and /snmpwalk.
QueryArgs == {<<>>} \cup {<<oid>> : oid \in OidInputs}

\* ----------------------------------------------------------------- actions
usage == [text |-> "usage"]

\* /snmp: lines 470-484, to the 'please wait' reply.
snmp_get(c, args) ==
    /\ calls[c].pc = "idle"
    /\ calls' = [calls EXCEPT ![c] =
         IF args = <<>>
         THEN [IdleCall EXCEPT !.pc = "returned", !.via = "snmp_get", !.response = usage]
         ELSE [IdleCall EXCEPT !.pc = "notified", !.via = "snmp_get", !.op = "get",
                               !.arg = args[1]]]
    /\ UNCHANGED <<snmp_manager, config_queue, config_reply, oid_in, valid_out>>

\* /snmpwalk: lines 516-530; the walk is called with the default max_results.
snmp_walk(c, args) ==
    /\ calls[c].pc = "idle"
    /\ calls' = [calls EXCEPT ![c] =
         IF args = <<>>
         THEN [IdleCall EXCEPT !.pc = "returned", !.via = "snmp_walk", !.response = usage]
         ELSE [IdleCall EXCEPT !.pc = "notified", !.via = "snmp_walk", !.op = "walk",
                               !.arg = args[1], !.max_results = DefaultMaxResults]]
    /\ UNCHANGED <<snmp_manager, config_queue, config_reply, oid_in, valid_out>>

\* The manager a handler calls: bot.snmp_manager as it is at line 492 / 538.
handler_manager(call, manager) == manager

\* Lines 492 / 538: the handler calls the operation on bot.snmp_manager; the
\* operation runs to its first await, or to its return.
handler_call(c, build) ==
    /\ calls[c].pc = "notified"
    /\ calls' = [calls EXCEPT ![c] =
         enter([calls[c] EXCEPT !.self = handler_manager(calls[c], snmp_manager)],
               snmp_manager, build)]
    /\ UNCHANGED <<snmp_manager, config_queue, config_reply, oid_in, valid_out>>

\* A caller other than the handlers calls get_snmp_value(oid) or
\* walk_snmp_tree(oid, max_results) on bot.snmp_manager.
direct_call(c, op, oid, max_results, build) ==
    /\ calls[c].pc = "idle"
    /\ calls' = [calls EXCEPT ![c] =
         enter([IdleCall EXCEPT !.via = "direct", !.op = op, !.arg = oid,
                                !.max_results = max_results, !.self = snmp_manager],
               snmp_manager, build)]
    /\ UNCHANGED <<snmp_manager, config_queue, config_reply, oid_in, valid_out>>

await_cmd(c, out) ==
    /\ calls[c].pc = "awaiting"
    /\ calls' = [calls EXCEPT ![c] = await_result(calls[c], out, snmp_manager)]
    /\ UNCHANGED <<snmp_manager, config_queue, config_reply, oid_in, valid_out>>

next_item(c, out) ==
    /\ calls[c].pc = "iterating"
    /\ calls' = [calls EXCEPT ![c] = iterate(calls[c], out, snmp_manager)]
    /\ UNCHANGED <<snmp_manager, config_queue, config_reply, oid_in, valid_out>>

\* The handler's last reply_text (lines 505, 551) is delivered.
reply(c) ==
    /\ calls[c].pc = "returned"
    /\ calls[c].via # "direct"
    /\ calls' = [calls EXCEPT ![c].pc = "done"]
    /\ UNCHANGED <<snmp_manager, config_queue, config_reply, oid_in, valid_out>>

\* The command is over and its slot is free for the next one.
forget(c) ==
    /\ calls[c].pc = (IF calls[c].via = "direct" THEN "returned" ELSE "done")
    /\ calls' = [calls EXCEPT ![c] = IdleCall]
    /\ UNCHANGED <<snmp_manager, config_queue, config_reply, oid_in, valid_out>>

\* ------------------------------------------------------------ /snmpconfig
\* TelegramBot.update_snmp_config: a new SNMPManager replaces the old one.
update_snmp_config(host, community, port) == SNMPManager(host, community, port)

InvalidPortReply == [text |-> "Invalid port number. Port must be a number."]

\* A variant that installs host and community before it parses the port.
snmp_config_step_update_first(manager, args) ==
    IF args = <<>> THEN [manager |-> manager, reply |-> usage]
    ELSE LET host      == args[1]
             community == IF Len(args) > 1 THEN args[2] ELSE DefaultCommunity
             port      == IF Len(args) > 2 THEN int(args[3])
                          ELSE [raises |-> "none", value |-> DefaultPort]
         IN IF port.raises = "ValueError"
            THEN [manager |-> update_snmp_config(host, community, DefaultPort),
                  reply |-> InvalidPortReply]
            ELSE [manager |-> update_snmp_config(host, community, port.value),
                  reply |-> [text |-> "SNMP Configuration Updated", host |-> host,
                             community |-> community, port |-> port.value]]

\* A variant that keeps the community and the port of the previous
\* configuration when the command omits them.
snmp_config_step_merge(manager, args) ==
    IF args = <<>> THEN [manager |-> manager, reply |-> usage]
    ELSE LET host      == args[1]
             community == IF Len(args) > 1 THEN args[2] ELSE manager.community
             port      == IF Len(args) > 2 THEN int(args[3])
                          ELSE [raises |-> "none", value |-> manager.port]
         IN IF port.raises = "ValueError"
            THEN [manager |-> manager, reply |-> InvalidPortReply]
            ELSE [manager |-> update_snmp_config(host, community, port.value),
                  reply |-> [text |-> "SNMP Configuration Updated", host |-> host,
                             community |-> community, port |-> port.value]]

\* snmp_config from the arguments to the reply (lines 562-605): the manager
\* the bot refers to afterwards, and the reply.
snmp_config_step(manager, args) ==
    IF args = <<>> THEN [manager |-> manager, reply |-> usage]
    ELSE LET host      == args[1]
             community == IF Len(args) > 1 THEN args[2] ELSE DefaultCommunity
             port      == IF Len(args) > 2 THEN int(args[3])
                          ELSE [raises |-> "none", value |-> DefaultPort]
         IN IF port.raises = "ValueError"
            THEN [manager |-> manager, reply |-> InvalidPortReply]
            ELSE [manager |-> update_snmp_config(host, community, port.value),
                  reply |-> [text |-> "SNMP Configuration Updated", host |-> host,
                             community |-> community, port |-> port.value]]

\* The application receives a /snmpconfig update with its argument list;
\* its handler runs when the dispatcher gets to it.
receive_config(args) ==
    /\ config_queue = <<>>
    /\ config_queue' = <<args>>
    /\ UNCHANGED <<snmp_manager, calls, config_reply, oid_in, valid_out>>

\* The handler of the update received runs, to its reply.
snmp_config ==
    /\ config_queue # <<>>
    /\ snmp_manager' = snmp_config_step(snmp_manager, Head(config_queue)).manager
    /\ config_reply' = snmp_config_step(snmp_manager, Head(config_queue)).reply
    /\ config_queue' = Tail(config_queue)
    /\ UNCHANGED <<calls, oid_in, valid_out>>

Hosts == {DefaultHost, "10.0.0.2"}
Communities == {DefaultCommunity, "private"}

\* Port arguments: every string over PortAlphabet up to MaxPortLen, and one
\* number above 65535.
PortTokens ==
    (SeqsUpTo(PortAlphabet, MaxPortLen) \ {<<>>}) \cup {<<"7", "0", "0", "0", "0">>}

\* The argument lists of /snmpconfig.
ConfigArgs ==
    {<<>>} \cup {<<h>> : h \in Hosts} \cup {<<h, c>> : h \in Hosts, c \in Communities}
    \cup {<<h, c, p>> : h \in Hosts, c \in Communities, p \in PortTokens}

\* The few of them used while queries run.
RaceConfigArgs ==
    {<<"10.0.0.2">>, <<DefaultHost, "private", <<"1", "6">>>>}

NoConfigReply == [text |-> "none"]

\* ------------------------------------------------------------ validate_oid
validate(oid) ==
    /\ valid_out = <<>>
    /\ oid = oid_in
    /\ valid_out' = <<validate_oid(oid)>>
    /\ UNCHANGED <<snmp_manager, calls, config_queue, config_reply, oid_in>>

\* ----------------------------------------------------------- specifications
\* main(): the bot is configured from the environment (lines 672-674, 697),
\* by default 192.168.137.130, 'public', 161.
InitialManagers ==
    {update_snmp_config(DefaultHost, DefaultCommunity, DefaultPort),
     update_snmp_config("10.0.0.2", "private", 162)}

InitBot ==
    /\ snmp_manager \in InitialManagers
    /\ calls = [c \in Slots |-> IdleCall]
    /\ config_queue = <<>>
    /\ config_reply = NoConfigReply

Init ==
    /\ InitBot
    /\ oid_in = <<>>
    /\ valid_out = <<>>

\* The query engine: one command or caller at a time, every transport
\* outcome.
Next ==
    \/ \E args \in QueryArgs : snmp_get(1, args)
    \/ \E args \in QueryArgs : snmp_walk(1, args)
    \/ \E build \in BuildOutcomes : handler_call(1, build)
    \/ \E op \in {"get", "walk"}, oid \in OidInputs, n \in (0 - 1)..MaxResultsArg,
          build \in BuildOutcomes : direct_call(1, op, oid, n, build)
    \/ \E out \in {"ok"} \cup Exceptions : await_cmd(1, out)
    \/ \E out \in IterationOutcomes(calls[1]) : next_item(1, out)
    \/ reply(1)
    \/ forget(1)

Spec == Init /\ [][Next]_vars

\* The identifier validator applied to every string up to MaxOidLen.
InitOid ==
    /\ InitBot
    /\ snmp_manager = update_snmp_config(DefaultHost, DefaultCommunity, DefaultPort)
    /\ oid_in \in SeqsUpTo(OidAlphabet, MaxOidLen)
    /\ valid_out = <<>>

NextOid == validate(oid_in)

SpecOid == InitOid /\ [][NextOid]_vars

\* The reconfiguration command with every argument list.
NextConfig ==
    \/ \E args \in ConfigArgs : receive_config(args)
    \/ snmp_config

SpecConfig == Init /\ [][NextConfig]_vars

\* Commands arriving while others are in flight: two slots, the two query
\* commands and reconfiguration.
RaceOutcomes(call) ==
    {o \in IterationOutcomes(call) :
        /\ o.kind = "raise" => o.exc = "TimeoutError"
        /\ o.kind = "item" => /\ o.item.errorStatus = 0
                              /\ Len(o.item.varBinds) = 1
                              /\ call.delivered = <<>>}

NextRace ==
    \/ \E c \in Slots : snmp_get(c, <<<<"1", ".", "3">>>>)
    \/ \E c \in Slots : snmp_walk(c, <<<<"1", ".", "3">>>>)
    \/ \E c \in Slots : handler_call(c, [at |-> "none", exc |-> "none"])
    \/ \E c \in Slots : await_cmd(c, "ok")
    \/ \E c \in Slots : \E out \in RaceOutcomes(calls[c]) : next_item(c, out)
    \/ \E c \in Slots : reply(c)
    \/ \E c \in Slots : forget(c)
    \/ \E args \in RaceConfigArgs : receive_config(args)
    \/ snmp_config

SpecRace == Init /\ [][NextRace]_vars

\* A transport that answers every request: within the first MaxBatches
\* responses anything, and after them, for as long as it is asked, further
\* error-free responses of one binding each, the slowest way to a cap.
LiveOutcomes(call) ==
    IterationOutcomes(call)
    \cup {[kind |-> "item", item |-> it] :
            it \in {x \in Items(Served(call)) :
                      /\ x.errorIndication = NoIndication
                      /\ x.errorStatus = 0
                      /\ x.errorIndex = 0
                      /\ Len(x.varBinds) = 1}}

\* The identifiers used with it: one valid, one invalid.
LiveOids == {<<"1", ".", "3">>, <<"a">>}

InitLive ==
    /\ Init
    /\ snmp_manager = update_snmp_config(DefaultHost, DefaultCommunity, DefaultPort)

\* One command or caller at a time, with every max_results for a walk.
NextLive ==
    \/ \E oid \in LiveOids : snmp_get(1, <<oid>>)
    \/ \E oid \in LiveOids : snmp_walk(1, <<oid>>)
    \/ \E build \in BuildOutcomes : handler_call(1, build)
    \/ \E oid \in LiveOids, build \in BuildOutcomes : direct_call(1, "get", oid, 0, build)
    \/ \E oid \in LiveOids, n \in (0 - 1)..MaxResultsArg, build \in BuildOutcomes :
          direct_call(1, "walk", oid, n, build)
    \/ \E out \in {"ok"} \cup Exceptions : await_cmd(1, out)
    \/ \E out \in LiveOutcomes(calls[1]) : next_item(1, out)
    \/ reply(1)
    \/ forget(1)

\* Every awaited transport request completes: the awaitable resolves or
\* raises, and the iterator yields, ends or raises.
FairLive ==
    /\ WF_vars(\E out \in {"ok"} \cup Exceptions : await_cmd(1, out))
    /\ WF_vars(\E out \in LiveOutcomes(calls[1]) : next_item(1, out))

SpecLive == InitLive /\ [][NextLive]_vars /\ FairLive

\* ------------------------------------------------------------------ claims
\* A call of one of the two operations that has ended.
Ended(call) == call.pc \in {"returned", "done"} /\ call.op # "none"

\* A tagged result: success true, or success false with an error message.
IsTagged(result) ==
    \/ result.success = TRUE
    \/ result.success = FALSE /\ result.error[1] # ""

ErrorFree(batches) ==
    \A i \in 1..Len(batches) :
        batches[i].errorIndication = NoIndication /\ batches[i].errorStatus = 0

\* The entries of a walk result for a sequence of bindings.
Entries(varBinds) ==
    [i \in 1..Len(varBinds) |->
        [oid |-> str(varBinds[i][1]), value |-> str(varBinds[i][2].v)]]

Min(a, b) == IF a < b THEN a ELSE b

\* C1: whatever the identifier, the configuration and the transport do, a
\* call of get_snmp_value or walk_snmp_tree that ends has returned a tagged
\* result, and no exception has left the operation.
C1_AlwaysTaggedResult ==
    \A c \in Slots :
        Ended(calls[c]) =>
            /\ calls[c].raised = "none"
            /\ IsTagged(calls[c].result)

\* A call ended by the IndexError of the error-index lookup, reported as a
\* connection error.
C1_Witness ==
    \E c \in Slots :
        /\ Ended(calls[c])
        /\ calls[c].result.success = FALSE
        /\ calls[c].result.error[1] = E_Connection
        /\ calls[c].result.error[2] = "IndexError"

\* C2: a walk of a valid identifier with max_results = N >= 0 over
\* error-free batches returns Success with count <= N and exactly the first
\* min(N, total) bindings, in order.
C2_WalkReturnsFirstN ==
    \A c \in Slots :
        (/\ Ended(calls[c])
         /\ calls[c].op = "walk"
         /\ validate_oid(calls[c].arg)
         /\ calls[c].max_results >= 0
         /\ calls[c].fault = "none"
         /\ ErrorFree(calls[c].delivered))
        => LET all == Flatten(calls[c].delivered)
               n   == Min(calls[c].max_results, Len(all))
           IN /\ calls[c].result.success
              /\ calls[c].result.count <= calls[c].max_results
              /\ calls[c].result.count = Len(calls[c].result.results)
              /\ calls[c].result.results = Entries(SubSeq(all, 1, n))

\* C3: a walk of a valid identifier with max_results = 0 over error-free
\* batches returns Success with count 0 and no entry.
C3_WalkZeroIsEmpty ==
    \A c \in Slots :
        (/\ Ended(calls[c])
         /\ calls[c].op = "walk"
         /\ validate_oid(calls[c].arg)
         /\ calls[c].max_results = 0
         /\ calls[c].fault = "none"
         /\ ErrorFree(calls[c].delivered))
        => /\ calls[c].result.success
           /\ calls[c].result.count = 0
           /\ calls[c].result.results = <<>>

\* The strings of the identifier grammar: an optional leading dot, then
\* digits and dots that begin and end with a digit and hold no two dots in
\* a row.
WellFormedOid(s) ==
    LET r == IF Len(s) > 0 /\ s[1] = "." THEN Tail(s) ELSE s
    IN /\ Len(r) > 0
       /\ \A i \in 1..Len(r) : r[i] \in Digits \cup {"."}
       /\ r[1] \in Digits
       /\ r[Len(r)] \in Digits
       /\ \A i \in 1..(Len(r) - 1) : ~(r[i] = "." /\ r[i + 1] = ".")

\* C4: validate_oid returns true exactly for the strings of the identifier
\* grammar, and false for every other string, a trailing line terminator
\* included.
C4_ValidateExact ==
    valid_out # <<>> => (valid_out[1] <=> WellFormedOid(oid_in))

\* C5: a call whose identifier fails validation returns the invalid-format
\* Failure with no engine, no transport and no request.
C5_InvalidOidNoNetwork ==
    \A c \in Slots :
        (/\ calls[c].op # "none"
         /\ calls[c].pc # "notified"
         /\ ~validate_oid(calls[c].arg))
        => /\ Ended(calls[c])
           /\ calls[c].raised = "none"
           /\ calls[c].result.success = FALSE
           /\ calls[c].result.error[1] =
                (IF calls[c].op = "get" THEN E_InvalidGet ELSE E_InvalidWalk)
           /\ calls[c].engine = FALSE
           /\ calls[c].transport = NoTransport
           /\ calls[c].sent = <<>>

\* A call with an invalid identifier has returned.
C5_Witness ==
    \E c \in Slots :
        /\ Ended(calls[c])
        /\ ~validate_oid(calls[c].arg)
        /\ calls[c].result.success = FALSE

\* The endpoint an SNMPManager names.
EndpointOf(manager) ==
    [host |-> manager.target_host, port |-> manager.port,
     community |-> manager.community]

InFlight(call) == call.pc \in {"awaiting", "iterating"}

\* C6: under any interleaving of reconfigurations with queries, a query
\* that has been issued sends every request to the host, port and community
\* the bot was configured with at call entry, and keeps them until it
\* returns; a query issued after a reconfiguration has completed uses the
\* host, community and port of that reconfiguration.
C6_InFlightKeepsConfig ==
    [][\A c \in Slots :
         /\ (calls[c].pc = "notified" /\ calls'[c].pc # "notified")
              => /\ calls'[c].self = snmp_manager
                 /\ (InFlight(calls'[c]) /\ config_reply.text = "SNMP Configuration Updated")
                      => /\ calls'[c].transport.host = config_reply.host
                         /\ calls'[c].transport.port = config_reply.port
                         /\ calls'[c].community = config_reply.community
         /\ InFlight(calls[c])
              => /\ calls'[c].self = calls[c].self
                 /\ calls'[c].transport = calls[c].transport
                 /\ calls'[c].community = calls[c].community
                 /\ \A i \in 1..Len(calls'[c].sent) :
                        calls'[c].sent[i] = EndpointOf(calls[c].self)]_vars

\* A query that has sent requests is in flight with the configuration it
\* was issued under, the bot has been reconfigured since, and another query
\* is in flight under the new configuration.
C6_Witness ==
    \E c, d \in Slots :
        /\ calls[c].pc = "iterating"
        /\ calls[c].delivered # <<>>
        /\ calls[c].self # snmp_manager
        /\ \A i \in 1..Len(calls[c].sent) : calls[c].sent[i] = EndpointOf(calls[c].self)
        /\ calls[d].pc = "iterating"
        /\ calls[d].self = snmp_manager
        /\ config_reply.text = "SNMP Configuration Updated"

\* A port argument that is no number: not an optional sign followed by
\* digits only.
NonNumeric(token) ==
    LET body == IF Len(token) > 0 /\ token[1] \in {"-", "+"} THEN Tail(token) ELSE token
    IN body = <<>> \/ \E i \in 1..Len(body) : body[i] \notin Digits

\* C7: a reconfiguration whose port argument is no number is answered with
\* the invalid-port reply and leaves the configuration as it was.
C7_BadPortRejected ==
    [][(/\ config_queue # <<>>
        /\ Len(Head(config_queue)) > 2
        /\ NonNumeric(Head(config_queue)[3])
        /\ config_queue' = Tail(config_queue))
       => /\ config_reply' = InvalidPortReply
          /\ snmp_manager' = snmp_manager]_vars

\* The last reconfiguration was rejected for its port, after an earlier one
\* had changed the configuration.
C7_Witness ==
    /\ config_queue = <<>>
    /\ config_reply = InvalidPortReply
    /\ snmp_manager \notin InitialManagers

\* C8: after any sequence of reconfiguration requests the configured port
\* is in 1..65535, ports outside that range being rejected.
C8_PortInRange == snmp_manager.port \in 1..65535

\* C9: get_snmp_value, on a response with no error indication and a
\* non-zero error status, returns the error-status Failure naming
\* varBinds[errorIndex-1] when errorIndex is in 1..len(varBinds) and '?'
\* otherwise.
C9_StatusFailureNamesOid ==
    \A c \in Slots :
        (/\ Ended(calls[c])
         /\ calls[c].op = "get"
         /\ calls[c].fault = "none"
         /\ calls[c].delivered # <<>>
         /\ calls[c].delivered[Len(calls[c].delivered)].errorIndication = NoIndication
         /\ calls[c].delivered[Len(calls[c].delivered)].errorStatus # 0)
        => LET item == calls[c].delivered[Len(calls[c].delivered)]
               at   == IF item.errorIndex \in 1..Len(item.varBinds)
                       THEN str(item.varBinds[item.errorIndex][1]) ELSE "?"
           IN /\ calls[c].result.success = FALSE
              /\ calls[c].result.error[1] = E_StatusGet
              /\ calls[c].result.error[2] = <<prettyPrint(item.errorStatus), at>>

\* C10: a walk of a valid identifier that yields no binding and no error
\* returns Success with count 0 and no entry; and /snmpwalk answers a
\* Success with entries by the result list, a Success without entries by 'no
\* results', and a Failure by 'walk failed' with the error message.
C10_EmptyWalkIsSuccess ==
    \A c \in Slots :
        (Ended(calls[c]) /\ calls[c].op = "walk") =>
            /\ (/\ validate_oid(calls[c].arg)
                /\ calls[c].fault = "none"
                /\ ErrorFree(calls[c].delivered)
                /\ Flatten(calls[c].delivered) = <<>>)
               => /\ calls[c].result.success
                  /\ calls[c].result.count = 0
                  /\ calls[c].result.results = <<>>
            /\ calls[c].via = "snmp_walk"
               => IF calls[c].result.success
                  THEN IF calls[c].result.results # <<>>
                       THEN /\ calls[c].response.text = "SNMP Walk Results"
                            /\ calls[c].response.items = calls[c].result.results
                            /\ calls[c].response.count = calls[c].result.count
                       ELSE calls[c].response.text = "No results found for the specified OID."
                  ELSE /\ calls[c].response.text = "SNMP Walk Failed"
                       /\ calls[c].response.error = calls[c].result.error

\* /snmpwalk has answered 'no results' to a walk whose batches held no
\* binding.
C10_Witness ==
    \E c \in Slots :
        /\ Ended(calls[c])
        /\ calls[c].via = "snmp_walk"
        /\ calls[c].delivered # <<>>
        /\ calls[c].result.success
        /\ calls[c].result.count = 0
        /\ calls[c].response.text = "No results found for the specified OID."

\* C11: a get_snmp_value call of a valid identifier whose responses carry
\* no error indication, no error status and no binding at all returns the
\* 'no data received' Failure and never Success; the 'no data received'
\* Failure is returned in that case only; and a Success is returned only
\* when a binding was returned, and carries the first binding returned.
C11_GetClassification ==
    \A c \in Slots :
        (Ended(calls[c]) /\ calls[c].op = "get" /\ calls[c].raised = "none") =>
            LET all == Flatten(calls[c].delivered)
                nothing == /\ validate_oid(calls[c].arg)
                           /\ calls[c].fault = "none"
                           /\ ErrorFree(calls[c].delivered)
                           /\ all = <<>>
            IN /\ nothing => /\ calls[c].result.success = FALSE
                             /\ calls[c].result.error = <<E_NoData, "">>
               /\ (calls[c].result.success = FALSE /\ calls[c].result.error[1] = E_NoData)
                    => nothing
               /\ calls[c].result.success
                    => /\ all # <<>>
                       /\ ErrorFree(calls[c].delivered)
                       /\ calls[c].result.oid = str(all[1][1])
                       /\ calls[c].result.value = str(all[1][2].v)
                       /\ calls[c].result.type = all[1][2].type

\* A get has returned Success from a response with more than one binding,
\* after a response without bindings.
C11_Witness ==
    \E c \in Slots :
        /\ Ended(calls[c])
        /\ calls[c].op = "get"
        /\ calls[c].result.success
        /\ Len(calls[c].delivered) > 1
        /\ Len(Flatten(calls[c].delivered)) > 1

\* A /snmpconfig command that reconfigures: it names a host, and its port
\* argument, if any, is a number.
Reconfigures(args) ==
    /\ args # <<>>
    /\ Len(args) > 2 => ~NonNumeric(args[3])

\* C12: a reconfiguration replaces the whole configuration: the host is the
\* one given, an omitted community is 'public' and an omitted port is 161
\* whatever they were before, and nothing else changes the configuration,
\* so that it always equals the arguments, with defaults, of the last
\* reconfiguration.
C12_ReconfigurationReplaces ==
    [][IF /\ config_queue # <<>>
          /\ config_queue' = Tail(config_queue)
          /\ Reconfigures(Head(config_queue))
       THEN LET args == Head(config_queue)
            IN /\ snmp_manager'.target_host = args[1]
               /\ snmp_manager'.community = (IF Len(args) > 1 THEN args[2] ELSE "public")
               /\ snmp_manager'.port = (IF Len(args) > 2 THEN int(args[3]).value ELSE 161)
               /\ DOMAIN snmp_manager' = {"target_host", "community", "port"}
       ELSE snmp_manager' = snmp_manager]_vars

\* A reconfiguration has been answered and the configuration is the host
\* 10.0.0.2 with the default community and port, which the bot did not
\* start with.
C12_Witness ==
    /\ config_queue = <<>>
    /\ config_reply.text = "SNMP Configuration Updated"
    /\ snmp_manager = SNMPManager("10.0.0.2", "public", 161)

\* The timeout Failure of the operation.
TimeoutFailure(op) == Failure(IF op = "get" THEN E_TimeoutGet ELSE E_TimeoutWalk, "")

\* The exception was raised while the engine or the transport was created,
\* before the inner try.
RaisedAtBuild(call) == call.transport = NoTransport

\* C13 as stated: a call in which the transport raised TimeoutError, at
\* creation, at the await or in the iteration, returns the timeout Failure;
\* a call in which it raised any other exception returns the generic
\* connection-error Failure.
C13_OtherExceptionsGeneric ==
    \A c \in Slots :
        (Ended(calls[c]) /\ calls[c].fault # "none") =>
            /\ calls[c].raised = "none"
            /\ IF calls[c].fault = "TimeoutError"
               THEN calls[c].result = TimeoutFailure(calls[c].op)
               ELSE calls[c].result = Failure(E_Connection, calls[c].fault)

\* C13: a call in which the transport raised TimeoutError, at creation, at
\* the await or in the iteration, returns the timeout Failure and never the
\* connection-error one; an AttributeError raised at the await or in the
\* iteration gives the AttributeError Failure; every other exception, and
\* an AttributeError raised at creation, gives the generic connection-error
\* Failure.
C13_TimeoutAndAttributeClasses ==
    \A c \in Slots :
        (Ended(calls[c]) /\ calls[c].fault # "none") =>
            /\ calls[c].raised = "none"
            /\ IF calls[c].fault = "TimeoutError"
               THEN calls[c].result = TimeoutFailure(calls[c].op)
               ELSE IF calls[c].fault = "AttributeError" /\ ~RaisedAtBuild(calls[c])
               THEN calls[c].result = Failure(E_Attribute, calls[c].fault)
               ELSE calls[c].result = Failure(E_Connection, calls[c].fault)

\* A walk has returned the timeout Failure for a TimeoutError raised in the
\* iteration, after a response had been consumed.
C13_Witness ==
    \E c \in Slots :
        /\ Ended(calls[c])
        /\ calls[c].op = "walk"
        /\ calls[c].fault = "TimeoutError"
        /\ calls[c].delivered # <<>>
        /\ calls[c].result = TimeoutFailure("walk")

\* C14: in a walk with max_results = N >= 0 over error-free batches, once
\* the accumulated entries number N nothing more is taken: no binding is
\* appended beyond the N-th, no batch is consumed after a batch with which
\* the entries numbered N, and the entries taken from that batch, a part of
\* it or all, are kept in the result.
C14_WalkStopsAtCap ==
    \A c \in Slots :
        (/\ calls[c].op = "walk"
         /\ calls[c].pc \in {"iterating", "returned", "done"}
         /\ validate_oid(calls[c].arg)
         /\ calls[c].max_results >= 0
         /\ ErrorFree(calls[c].delivered))
        => LET all == Flatten(calls[c].delivered)
               n   == Min(calls[c].max_results, Len(all))
           IN /\ calls[c].count = Len(calls[c].results)
              /\ calls[c].count = n
              /\ calls[c].results = Entries(SubSeq(all, 1, n))
              /\ \A k \in 1..(Len(calls[c].delivered) - 1) :
                     Len(Flatten(SubSeq(calls[c].delivered, 1, k))) < calls[c].max_results
              /\ (Ended(calls[c]) /\ calls[c].fault = "none")
                   => calls[c].result = WalkSuccess(calls[c].results, calls[c].count)

\* The call has returned a result to its caller.
Returned(call) == Ended(call) /\ call.raised = "none" /\ IsTagged(call.result)

C16_TargetIsHostQueried ==
    \A c \in Slots :
        (/\ Ended(calls[c])
         /\ calls[c].via \in {"snmp_get", "snmp_walk"}
         /\ calls[c].response.text \in {"SNMP Query Successful", "SNMP Walk Results"})
        => /\ calls[c].response.target = calls[c].transport.host
           /\ \A i \in 1..Len(calls[c].sent) :
                  calls[c].sent[i].host = calls[c].response.target

\* C17: a walk in which a response carried an error indication or an error
\* status returns a Failure that holds the error message alone, with none
\* of the entries of earlier responses; a walk returns Success only when
\* every response it consumed was free of errors and nothing was raised.
C17_WalkAllOrNothing ==
    \A c \in Slots :
        (Ended(calls[c]) /\ calls[c].op = "walk" /\ calls[c].raised = "none") =>
            /\ ~ErrorFree(calls[c].delivered)
                 => /\ calls[c].result.success = FALSE
                    /\ calls[c].result.error[1] \in {E_IndicationWalk, E_StatusWalk}
            /\ calls[c].result.success = FALSE
                 => DOMAIN calls[c].result = {"success", "error"}
            /\ calls[c].result.success
                 => /\ ErrorFree(calls[c].delivered)
                    /\ calls[c].fault = "none"

\* A walk that had accumulated entries has returned the Failure of an error
\* status that came in a later response.
C17_Witness ==
    \E c \in Slots :
        /\ Ended(calls[c])
        /\ calls[c].op = "walk"
        /\ calls[c].results # <<>>
        /\ ~ErrorFree(calls[c].delivered)
        /\ calls[c].result.success = FALSE
        /\ calls[c].result.error[1] = E_StatusWalk

====
